---------------------------- MODULE Spec2Model ----------------------------
(***************************************************************************)
(* Model of the concurrent pipelines of the repository:                    *)
(*   src/2_async_2023/spammer.go  RunPipeline, SelectUsers, SelectMessages,*)
(*                                CheckSpam, CombineResults                *)
(*   src/unnamed/part_000         main, ExecutePipeline, SingleHash,       *)
(*                                MultiHash, CombineResults                *)
(*   src/unnamed/part_001         WorkerPool, main                         *)
(*                                                                         *)
(* Every goroutine is a process with a program counter; a step of a        *)
(* goroutine is one action.  Go strings are sequences of character codes.  *)
(* An unbuffered channel is a one-place rendezvous cell: a sender puts its *)
(* message in the cell (it is then blocked in the send statement) and      *)
(* continues only after a receiver has taken the message out.              *)
(***************************************************************************)
EXTENDS Naturals, Integers, Sequences, FiniteSets, TLC

VARIABLES
    cmds,      \* the stage list given to RunPipeline / ExecutePipeline
    ch,        \* ch[c]: the message a sender blocked on stream c offers
    closed,    \* closed[c]: stream c has been closed
    nclose,    \* nclose[c]: number of close(c) calls executed
    ex,        \* the executor: pc, loop index i, wait group wg
    stpc,      \* stpc[k]: position of the goroutine running stage k
    panicked,  \* "none", or the runtime panic that ended the program
    src,       \* the source job
    su,        \* SelectUsers
    sm,        \* SelectMessages (seen: the users received, in arrival order)
    cs,        \* CheckSpam
    cr,        \* CombineResults of the spam pipeline (seen: arrival order)
    sh,        \* SingleHash
    mh,        \* MultiHash
    hc,        \* CombineResults of the hash pipeline (seen: arrival order)
    fin,       \* the terminal job of the pipeline and what it received
    wp         \* the WorkerPool, its AdjustWorkers goroutine and main

vars == <<cmds, ch, closed, nclose, ex, stpc, panicked,
          src, su, sm, cs, cr, sh, mh, hc, fin, wp>>

\* The variables an action of one stage leaves alone: the other stages'.
xEx == <<cmds, src, su, sm, cs, cr, sh, mh, hc, fin, wp>>
xSrc == <<cmds, su, sm, cs, cr, sh, mh, hc, fin, wp>>
xFin == <<cmds, src, su, sm, cs, cr, sh, mh, hc, wp>>
xSu == <<cmds, src, sm, cs, cr, sh, mh, hc, fin, wp>>
xSm == <<cmds, src, su, cs, cr, sh, mh, hc, fin, wp>>
xCs == <<cmds, src, su, sm, cr, sh, mh, hc, fin, wp>>
xCr == <<cmds, src, su, sm, cs, sh, mh, hc, fin, wp>>
xSh == <<cmds, src, su, sm, cs, cr, mh, hc, fin, wp>>
xMh == <<cmds, src, su, sm, cs, cr, sh, hc, fin, wp>>
xHc == <<cmds, src, su, sm, cs, cr, sh, mh, fin, wp>>
xWp == <<cmds, ch, closed, nclose, ex, stpc, src, su, sm, cs, cr, sh, mh, hc, fin>>

-----------------------------------------------------------------------------
(* Bounds of the model *)

\* The most items a source emits.
MaxItems == 3

\* The batch size of SelectMessages and the capacity of CheckSpam's gate: the
\* stages are written for any value of these two configuration constants.
GetMessagesMaxUsersBatch == 2

HasSpamMaxAsyncRequests == 2

-----------------------------------------------------------------------------
(* Streams *)

MaxStages == 5
Chans == 0..MaxStages

NoMsg == [from |-> <<>>, val |-> <<>>]

Msg(t, v) == [from |-> t, val |-> v]

\* Whether a cell holds the offer of a sender.
IsMsg(m) == m.from # <<>>

NoPanic == "none"

Alive == panicked = NoPanic

Has(kind) == \E k \in 1..Len(cmds) : cmds[k] = kind

StageOf(kind) == CHOOSE k \in 1..Len(cmds) : cmds[k] = kind

InOf(kind) == StageOf(kind) - 1

OutOf(kind) == StageOf(kind)

\* The stage body is executing.
Running(kind) == Alive /\ Has(kind) /\ stpc[StageOf(kind)] = "body"

\* The goroutines a stage has started run whether or not its body has returned.
Live(kind) == Alive /\ Has(kind)

\* The deferred calls of the stage goroutine start when the body returns.
BodyReturns(kind) == stpc' = [stpc EXCEPT ![StageOf(kind)] = "close"]

\* A Go send statement reached by goroutine t: it panics on a closed stream,
\* and otherwise offers the value once no other sender's offer is pending.
SendEnabled(c) == closed[c] \/ ~IsMsg(ch[c])

SendEffect(c, t, v) ==
    IF closed[c]
    THEN /\ panicked' = "send on closed channel"
         /\ UNCHANGED ch
    ELSE /\ ch' = [ch EXCEPT ![c] = Msg(t, v)]
         /\ UNCHANGED panicked

\* The send statement of t completes once a receiver has taken its message.
Delivered(c, t) == ch[c].from # t

\* A receive finds a value when some sender offers one.
CanRecv(c) == IsMsg(ch[c])

\* A receive on a closed stream with no pending value yields end-of-data.
AtEnd(c) == closed[c] /\ ~IsMsg(ch[c])

Take(c) == ch' = [ch EXCEPT ![c] = NoMsg]

\* A Wait that does not wait.
WaitReturnsAtOnce(wg) == TRUE

\* sync.WaitGroup.Wait returns when the counter is zero.
WaitReturns(wg) == wg = 0

-----------------------------------------------------------------------------
(* Strings: sequences of character codes *)

RECURSIVE Itoa(_)
\* strconv.Itoa, and the %d verb, of a natural number.
Itoa(n) == IF n < 10 THEN <<48 + n>> ELSE Itoa(n \div 10) \o <<48 + (n % 10)>>

\* The %t verb.
FormatBool(b) == IF b THEN <<116, 114, 117, 101>> ELSE <<102, 97, 108, 115, 101>>

\* fmt.Sprintf("%t %d", result.HasSpam, result.ID)
FormatMsgData(r) == FormatBool(r.HasSpam) \o <<32>> \o Itoa(r.ID)

-----------------------------------------------------------------------------
(* External collaborators *)

Emails == {"a@x", "b@x", "a2@x"}

\* "a2@x" is an alias of the user of "a@x".
UserID(email) == IF email = "b@x" THEN 2 ELSE 1

GetUser(email) == [ID |-> UserID(email), Email |-> email]

Users == {[ID |-> 1, Email |-> "a@x"], [ID |-> 2, Email |-> "b@x"],
          [ID |-> 3, Email |-> "c@x"]}

\* The messages of one user: two, one and none.
MsgsOf(user) ==
    CASE user.ID = 1 -> <<11, 12>>
      [] user.ID = 2 -> <<21>>
      [] OTHER -> <<>>

RECURSIVE GetMessages(_)
\* The successful result of GetMessages(batch...): the messages of its users.
GetMessages(batch) ==
    IF batch = <<>> THEN <<>>
    ELSE MsgsOf(Head(batch)) \o GetMessages(Tail(batch))

MsgIDs == {11, 21}

\* The verdict of HasSpam on a message, when the call succeeds.
IsSpam(id) == id = 11

MsgDatas == [ID : {2, 11}, HasSpam : BOOLEAN]

-----------------------------------------------------------------------------
(* Pipeline configurations *)

InitCommon ==
    /\ ch = [c \in Chans |-> NoMsg]
    /\ closed = [c \in Chans |-> FALSE]
    /\ nclose = [c \in Chans |-> 0]
    /\ ex = [pc |-> "loop", i |-> 1, wg |-> 0]
    /\ stpc = [k \in 1..MaxStages |-> "unspawned"]
    /\ panicked = NoPanic
    /\ src = [i |-> 1, pc |-> "send"]
    /\ fin = [pc |-> "recv", got |-> <<>>]
    /\ su = [pc |-> "loop", wg |-> 0, mu |-> 0, processedUsers |-> {}, t |-> <<>>]
    /\ sm = [pc |-> "loop", wg |-> 0, userBatch |-> <<>>, seen |-> <<>>, t |-> <<>>]
    /\ cs = [pc |-> "loop", wg |-> 0, done |-> 0, id |-> 0, t |-> <<>>]
    /\ cr = [pc |-> "loop", results |-> <<>>, j |-> 1, seen |-> <<>>]
    /\ sh = [pc |-> "loop", wg |-> 0, wgAlgo |-> 0, md5n |-> 0, data |-> 0, t |-> <<>>]
    /\ mh = [pc |-> "loop", wg |-> 0, wgThreads |-> 0, t |-> <<>>]
    /\ hc = [pc |-> "loop", sl |-> <<>>, result |-> <<>>, seen |-> <<>>]
    /\ wp = [workersCounter |-> 0, wg |-> 0, closed |-> FALSE,
             loop |-> 0, dec |-> 0, done |-> 0,
             aw |-> "tick", currentLoad |-> 0, main |-> "signal", lateAdd |-> FALSE]

InitUsers ==
    /\ cmds = <<"source", "SelectUsers", "drain">>
    /\ InitCommon

InitMessages ==
    /\ cmds = <<"source", "SelectMessages", "drain">>
    /\ InitCommon

InitCheckSpam ==
    /\ cmds = <<"source", "CheckSpam", "drain">>
    /\ InitCommon

InitCombine ==
    /\ cmds = <<"source", "CombineResults", "drain">>
    /\ InitCommon

InitSingleHash ==
    /\ cmds = <<"source", "SingleHash", "drain">>
    /\ InitCommon

InitMultiHash ==
    /\ cmds = <<"source", "MultiHash", "drain">>
    /\ InitCommon

\* The sink of the hash pipeline before the last job of main, and that job
\* fed directly.
InitHashCombine ==
    /\ cmds \in {<<"source", "hash.CombineResults", "final">>, <<"source", "final">>}
    /\ InitCommon

\* Strings for the hash sink: "1", "10" and "9".
HashStrings == {<<49>>, <<49, 48>>, <<57>>}

\* inputData := []int{0, 1}
inputData == <<0, 1>>

\* The values the source may emit as its i-th item: any input of the type the
\* next stage takes.
Feed(i) ==
    CASE cmds[2] = "SelectUsers" -> Emails
      [] cmds[2] = "SelectMessages" -> Users
      [] cmds[2] = "CheckSpam" -> MsgIDs
      [] cmds[2] = "CombineResults" -> MsgDatas
      [] cmds[2] = "SingleHash" -> {i - 1}
      [] cmds[2] \in {"hash.CombineResults", "final"} -> HashStrings
      [] cmds[2] = "MultiHash" -> IF i <= Len(inputData) THEN {Itoa(inputData[i])} ELSE {}

\* Whether the source's data may end after i - 1 items.
FeedMayEnd(i) == TRUE

-----------------------------------------------------------------------------
(* RunPipeline / ExecutePipeline *)

\* One iteration of the executor's loop: wg.Add(1), make(out), go func;
\* after the last one the executor is at wg.Wait().
ExSpawn ==
    /\ Alive
    /\ ex.pc = "loop"
    /\ ex.i <= Len(cmds)
    /\ ex' = [ex EXCEPT !.i = @ + 1, !.wg = @ + 1,
                        !.pc = IF ex.i = Len(cmds) THEN "wait" ELSE "loop"]
    /\ stpc' = [stpc EXCEPT ![ex.i] = "body"]
    /\ UNCHANGED <<ch, closed, nclose, panicked>>
    /\ UNCHANGED xEx

\* The executor returning without waiting for the stage goroutines.
ExReturnNoWait ==
    /\ Alive
    /\ ex.pc = "wait"
    /\ ex' = [ex EXCEPT !.pc = "returned"]
    /\ UNCHANGED <<ch, closed, nclose, stpc, panicked>>
    /\ UNCHANGED xEx

\* wg.Wait() of the executor.
ExWait ==
    /\ Alive
    /\ ex.pc = "wait"
    /\ WaitReturns(ex.wg)
    /\ ex' = [ex EXCEPT !.pc = "returned"]
    /\ UNCHANGED <<ch, closed, nclose, stpc, panicked>>
    /\ UNCHANGED xEx

\* defer close(out) of the goroutine of stage k.
StageClose(k) ==
    /\ Alive
    /\ stpc[k] = "close"
    /\ stpc' = [stpc EXCEPT ![k] = "done"]
    /\ nclose' = [nclose EXCEPT ![k] = @ + 1]
    /\ IF closed[k]
       THEN panicked' = "close of closed channel" /\ UNCHANGED closed
       ELSE IF IsMsg(ch[k])
            THEN panicked' = "send on closed channel" /\ UNCHANGED closed
            ELSE closed' = [closed EXCEPT ![k] = TRUE] /\ UNCHANGED panicked
    /\ UNCHANGED <<ch, ex>>
    /\ UNCHANGED xEx

\* defer wg.Done() of the goroutine of stage k.
StageDone(k) ==
    /\ Alive
    /\ stpc[k] = "done"
    /\ stpc' = [stpc EXCEPT ![k] = "exited"]
    /\ ex' = [ex EXCEPT !.wg = @ - 1]
    /\ UNCHANGED <<ch, closed, nclose, panicked>>
    /\ UNCHANGED xEx

Executor ==
    \/ ExSpawn
    \/ ExWait
    \/ \E k \in 1..MaxStages : StageClose(k)
    \/ \E k \in 1..MaxStages : StageDone(k)

-----------------------------------------------------------------------------
(* The source job: for _, fibNum := range inputData { out <- fibNum } *)

SourceSend ==
    /\ Running("source")
    /\ src.pc = "send"
    /\ src.i <= MaxItems
    /\ SendEnabled(OutOf("source"))
    /\ \E v \in Feed(src.i) : SendEffect(OutOf("source"), <<"source">>, v)
    /\ src' = [src EXCEPT !.pc = "sent"]
    /\ UNCHANGED <<closed, nclose, ex, stpc>>
    /\ UNCHANGED xSrc

SourceSent ==
    /\ Running("source")
    /\ src.pc = "sent"
    /\ Delivered(OutOf("source"), <<"source">>)
    /\ src' = [src EXCEPT !.pc = "send", !.i = @ + 1]
    /\ UNCHANGED <<ch, closed, nclose, ex, stpc, panicked>>
    /\ UNCHANGED xSrc

SourceReturn ==
    /\ Running("source")
    /\ src.pc = "send"
    /\ FeedMayEnd(src.i) \/ src.i > MaxItems
    /\ src' = [src EXCEPT !.pc = "ret"]
    /\ BodyReturns("source")
    /\ UNCHANGED <<ch, closed, nclose, ex, panicked>>
    /\ UNCHANGED xSrc

Source == SourceSend \/ SourceSent \/ SourceReturn

-----------------------------------------------------------------------------
(* The terminal job that drains the last stream into the final result *)

DrainRecv ==
    /\ Running("drain")
    /\ fin.pc = "recv"
    /\ CanRecv(InOf("drain"))
    /\ fin' = [fin EXCEPT !.got = Append(@, ch[InOf("drain")].val)]
    /\ Take(InOf("drain"))
    /\ UNCHANGED <<closed, nclose, ex, stpc, panicked>>
    /\ UNCHANGED xFin

DrainReturn ==
    /\ Running("drain")
    /\ fin.pc = "recv"
    /\ AtEnd(InOf("drain"))
    /\ fin' = [fin EXCEPT !.pc = "ret"]
    /\ BodyReturns("drain")
    /\ UNCHANGED <<ch, closed, nclose, ex, panicked>>
    /\ UNCHANGED xFin

Drain == DrainRecv \/ DrainReturn

-----------------------------------------------------------------------------
(* SelectUsers *)

SuTasks == 1..Len(su.t)

\* for v := range in { wg.Add(1); go func(email string) {...}(v.(string)) }
SuLoopRecv ==
    /\ Running("SelectUsers")
    /\ su.pc = "loop"
    /\ CanRecv(InOf("SelectUsers"))
    /\ su' = [su EXCEPT !.wg = @ + 1,
                        !.t = Append(@, [pc |-> "getuser",
                                         email |-> ch[InOf("SelectUsers")].val])]
    /\ Take(InOf("SelectUsers"))
    /\ UNCHANGED <<closed, nclose, ex, stpc, panicked>>
    /\ UNCHANGED xSu

SuLoopEnd ==
    /\ Running("SelectUsers")
    /\ su.pc = "loop"
    /\ AtEnd(InOf("SelectUsers"))
    /\ su' = [su EXCEPT !.pc = "wait"]
    /\ UNCHANGED <<ch, closed, nclose, ex, stpc, panicked>>
    /\ UNCHANGED xSu

\* wg.Wait() and return of the stage body.
SuWait ==
    /\ Running("SelectUsers")
    /\ su.pc = "wait"
    /\ WaitReturns(su.wg)
    /\ su' = [su EXCEPT !.pc = "ret"]
    /\ BodyReturns("SelectUsers")
    /\ UNCHANGED <<ch, closed, nclose, ex, panicked>>
    /\ UNCHANGED xSu

\* user := GetUser(email) returns.
SuGetUser(t) ==
    /\ Live("SelectUsers")
    /\ su.t[t].pc = "getuser"
    /\ su' = [su EXCEPT !.t[t].pc = "lock"]
    /\ UNCHANGED <<ch, closed, nclose, ex, stpc, panicked>>
    /\ UNCHANGED xSu

SuUser(t) == GetUser(su.t[t].email)

\* A lock that excludes nobody.
MuAlwaysFree(mu) == TRUE

\* mu.Lock() returns when no goroutine holds the mutex.
MuFree(mu) == mu = 0

\* mu.Lock(); if _, ok := processedUsers[user.ID]; ok { return }
SuLock(t) ==
    /\ Live("SelectUsers")
    /\ su.t[t].pc = "lock"
    /\ MuFree(su.mu)
    /\ su' = [su EXCEPT !.mu = t,
                        !.t[t].pc = IF SuUser(t).ID \in su.processedUsers
                                    THEN "unlock" ELSE "insert"]
    /\ UNCHANGED <<ch, closed, nclose, ex, stpc, panicked>>
    /\ UNCHANGED xSu

\* processedUsers[user.ID] = struct{}{}
SuInsert(t) ==
    /\ Live("SelectUsers")
    /\ su.t[t].pc = "insert"
    /\ su' = [su EXCEPT !.processedUsers = @ \cup {SuUser(t).ID},
                        !.t[t].pc = "send"]
    /\ UNCHANGED <<ch, closed, nclose, ex, stpc, panicked>>
    /\ UNCHANGED xSu

\* out <- user
SuSend(t) ==
    /\ Live("SelectUsers")
    /\ su.t[t].pc = "send"
    /\ SendEnabled(OutOf("SelectUsers"))
    /\ SendEffect(OutOf("SelectUsers"), <<"SelectUsers", t>>, SuUser(t))
    /\ su' = [su EXCEPT !.t[t].pc = "sent"]
    /\ UNCHANGED <<closed, nclose, ex, stpc>>
    /\ UNCHANGED xSu

\* The send has completed and the function returns.
SuSent(t) ==
    /\ Live("SelectUsers")
    /\ su.t[t].pc = "sent"
    /\ Delivered(OutOf("SelectUsers"), <<"SelectUsers", t>>)
    /\ su' = [su EXCEPT !.t[t].pc = "unlock"]
    /\ UNCHANGED <<ch, closed, nclose, ex, stpc, panicked>>
    /\ UNCHANGED xSu

\* defer mu.Unlock(); defer wg.Done()
SuUnlock(t) ==
    /\ Live("SelectUsers")
    /\ su.t[t].pc = "unlock"
    /\ su' = [su EXCEPT !.mu = 0, !.wg = @ - 1, !.t[t].pc = "exit"]
    /\ UNCHANGED <<ch, closed, nclose, ex, stpc, panicked>>
    /\ UNCHANGED xSu

SelectUsers ==
    \/ SuLoopRecv
    \/ SuLoopEnd
    \/ SuWait
    \/ \E t \in SuTasks : SuGetUser(t)
    \/ \E t \in SuTasks : SuLock(t)
    \/ \E t \in SuTasks : SuInsert(t)
    \/ \E t \in SuTasks : SuSend(t)
    \/ \E t \in SuTasks : SuSent(t)
    \/ \E t \in SuTasks : SuUnlock(t)

-----------------------------------------------------------------------------
(* SelectMessages *)

SmTasks == 1..Len(sm.t)

\* go func(batch []User) {...}(userBatch)
SmDispatch(tasks, batch) == Append(tasks, [pc |-> "call", batch |-> batch,
                                           msgIDs |-> <<>>, j |-> 1, err |-> FALSE])

\* len(userBatch) == GetMessagesMaxUsersBatch
SmBatchFull(batch) == Len(batch) = GetMessagesMaxUsersBatch

\* One iteration of for user := range in: append the user and, when the batch
\* is full, wg.Add(1), start its goroutine and make a fresh batch.
SmLoopRecv ==
    /\ Running("SelectMessages")
    /\ sm.pc = "loop"
    /\ CanRecv(InOf("SelectMessages"))
    /\ LET user == ch[InOf("SelectMessages")].val
           batch == Append(sm.userBatch, user)
       IN  sm' = IF SmBatchFull(batch)
                 THEN [sm EXCEPT !.seen = Append(@, user), !.wg = @ + 1,
                                 !.t = SmDispatch(@, batch), !.userBatch = <<>>]
                 ELSE [sm EXCEPT !.seen = Append(@, user), !.userBatch = batch]
    /\ Take(InOf("SelectMessages"))
    /\ UNCHANGED <<closed, nclose, ex, stpc, panicked>>
    /\ UNCHANGED xSm

\* The partial batch forgotten at the end of input.
SmBatchLeftIgnored(batch) == FALSE

\* len(userBatch) > 0
SmBatchLeft(batch) == Len(batch) > 0

\* End of input: the partial batch, when there is one, is dispatched too.
SmLoopEnd ==
    /\ Running("SelectMessages")
    /\ sm.pc = "loop"
    /\ AtEnd(InOf("SelectMessages"))
    /\ sm' = IF SmBatchLeft(sm.userBatch)
             THEN [sm EXCEPT !.pc = "wait", !.wg = @ + 1,
                             !.t = SmDispatch(@, sm.userBatch)]
             ELSE [sm EXCEPT !.pc = "wait"]
    /\ UNCHANGED <<ch, closed, nclose, ex, stpc, panicked>>
    /\ UNCHANGED xSm

\* wg.Wait() and return of the stage body.
SmWait ==
    /\ Running("SelectMessages")
    /\ sm.pc = "wait"
    /\ WaitReturns(sm.wg)
    /\ sm' = [sm EXCEPT !.pc = "ret"]
    /\ BodyReturns("SelectMessages")
    /\ UNCHANGED <<ch, closed, nclose, ex, panicked>>
    /\ UNCHANGED xSm

\* A batch goroutine that emits whatever the call returned, error or not.
SmOnResultAnyway(t, msgIDs, err) ==
    IF msgIDs = <<>>
    THEN [sm EXCEPT !.t[t].pc = "exit", !.t[t].err = err, !.wg = @ - 1]
    ELSE [sm EXCEPT !.t[t].pc = "send", !.t[t].msgIDs = msgIDs, !.t[t].err = err]

\* What a batch goroutine does with the result of GetMessages: on an error it
\* logs and returns (wg.Done), otherwise it emits the messages one by one.
SmOnResult(t, msgIDs, err) ==
    IF err \/ msgIDs = <<>>
    THEN [sm EXCEPT !.t[t].pc = "exit", !.t[t].err = err, !.wg = @ - 1]
    ELSE [sm EXCEPT !.t[t].pc = "send", !.t[t].msgIDs = msgIDs]

\* msgIDs, err := GetMessages(batch...) returns.
SmCall(t) ==
    /\ Live("SelectMessages")
    /\ sm.t[t].pc = "call"
    /\ \E err \in BOOLEAN : sm' = SmOnResult(t, GetMessages(sm.t[t].batch), err)
    /\ UNCHANGED <<ch, closed, nclose, ex, stpc, panicked>>
    /\ UNCHANGED xSm

\* out <- msgID
SmSend(t) ==
    /\ Live("SelectMessages")
    /\ sm.t[t].pc = "send"
    /\ SendEnabled(OutOf("SelectMessages"))
    /\ SendEffect(OutOf("SelectMessages"), <<"SelectMessages", t>>,
                  sm.t[t].msgIDs[sm.t[t].j])
    /\ sm' = [sm EXCEPT !.t[t].pc = "sent"]
    /\ UNCHANGED <<closed, nclose, ex, stpc>>
    /\ UNCHANGED xSm

\* The send has completed: next msgID, or return (wg.Done) after the last.
SmSent(t) ==
    /\ Live("SelectMessages")
    /\ sm.t[t].pc = "sent"
    /\ Delivered(OutOf("SelectMessages"), <<"SelectMessages", t>>)
    /\ sm' = IF sm.t[t].j < Len(sm.t[t].msgIDs)
             THEN [sm EXCEPT !.t[t].pc = "send", !.t[t].j = @ + 1]
             ELSE [sm EXCEPT !.t[t].pc = "exit", !.t[t].j = @ + 1, !.wg = @ - 1]
    /\ UNCHANGED <<ch, closed, nclose, ex, stpc, panicked>>
    /\ UNCHANGED xSm

SelectMessages ==
    \/ SmLoopRecv
    \/ SmLoopEnd
    \/ SmWait
    \/ \E t \in SmTasks : SmCall(t)
    \/ \E t \in SmTasks : SmSend(t)
    \/ \E t \in SmTasks : SmSent(t)

-----------------------------------------------------------------------------
(* CheckSpam *)

CsTasks == 1..Len(cs.t)

\* for msgID := range in { id := msgID.(MsgID)
CsLoopRecv ==
    /\ Running("CheckSpam")
    /\ cs.pc = "loop"
    /\ CanRecv(InOf("CheckSpam"))
    /\ cs' = [cs EXCEPT !.pc = "acquire", !.id = ch[InOf("CheckSpam")].val]
    /\ Take(InOf("CheckSpam"))
    /\ UNCHANGED <<closed, nclose, ex, stpc, panicked>>
    /\ UNCHANGED xCs

\* A gate that never blocks.
GateAlwaysOpen(n) == TRUE

\* A send on the buffered channel done proceeds while it holds fewer than
\* HasSpamMaxAsyncRequests elements.
GateOpen(n) == n < HasSpamMaxAsyncRequests

\* done <- struct{}{}; wg.Add(1); go func(id MsgID) {...}(id)
CsAcquire ==
    /\ Running("CheckSpam")
    /\ cs.pc = "acquire"
    /\ GateOpen(cs.done)
    /\ cs' = [cs EXCEPT !.pc = "loop", !.done = @ + 1, !.wg = @ + 1,
                        !.t = Append(@, [pc |-> "call", id |-> cs.id, permit |-> TRUE,
                                         isSpam |-> FALSE, err |-> FALSE])]
    /\ UNCHANGED <<ch, closed, nclose, ex, stpc, panicked>>
    /\ UNCHANGED xCs

CsLoopEnd ==
    /\ Running("CheckSpam")
    /\ cs.pc = "loop"
    /\ AtEnd(InOf("CheckSpam"))
    /\ cs' = [cs EXCEPT !.pc = "wait"]
    /\ UNCHANGED <<ch, closed, nclose, ex, stpc, panicked>>
    /\ UNCHANGED xCs

\* wg.Wait() and return of the stage body.
CsWait ==
    /\ Running("CheckSpam")
    /\ cs.pc = "wait"
    /\ WaitReturns(cs.wg)
    /\ cs' = [cs EXCEPT !.pc = "ret"]
    /\ BodyReturns("CheckSpam")
    /\ UNCHANGED <<ch, closed, nclose, ex, panicked>>
    /\ UNCHANGED xCs

\* defer func() { <-done; wg.Done() }(): the task gives its permit back.
CsReleased(c, t) == [c EXCEPT !.t[t].pc = "exit", !.t[t].permit = FALSE,
                              !.done = @ - 1, !.wg = @ - 1]

\* A task that emits its record whether or not HasSpam failed.
CsOnResultAnyway(t, isSpam, err) ==
    [cs EXCEPT !.t[t].pc = "send", !.t[t].isSpam = isSpam, !.t[t].err = err]

\* What a task does with the result of HasSpam: on an error it logs and
\* returns, running the deferred function; otherwise it goes on to emit.
CsOnResult(t, isSpam, err) ==
    IF err
    THEN CsReleased([cs EXCEPT !.t[t].err = TRUE], t)
    ELSE [cs EXCEPT !.t[t].pc = "send", !.t[t].isSpam = isSpam]

\* isSpam, err := HasSpam(id) returns.
CsCall(t) ==
    /\ Live("CheckSpam")
    /\ cs.t[t].pc = "call"
    /\ \E err \in BOOLEAN : cs' = CsOnResult(t, IsSpam(cs.t[t].id), err)
    /\ UNCHANGED <<ch, closed, nclose, ex, stpc, panicked>>
    /\ UNCHANGED xCs

\* out <- MsgData{ID: id, HasSpam: isSpam}
CsSend(t) ==
    /\ Live("CheckSpam")
    /\ cs.t[t].pc = "send"
    /\ SendEnabled(OutOf("CheckSpam"))
    /\ SendEffect(OutOf("CheckSpam"), <<"CheckSpam", t>>,
                  [ID |-> cs.t[t].id, HasSpam |-> cs.t[t].isSpam])
    /\ cs' = [cs EXCEPT !.t[t].pc = "sent"]
    /\ UNCHANGED <<closed, nclose, ex, stpc>>
    /\ UNCHANGED xCs

\* The send has completed: the task returns, running the deferred function.
CsSent(t) ==
    /\ Live("CheckSpam")
    /\ cs.t[t].pc = "sent"
    /\ Delivered(OutOf("CheckSpam"), <<"CheckSpam", t>>)
    /\ cs' = CsReleased(cs, t)
    /\ UNCHANGED <<ch, closed, nclose, ex, stpc, panicked>>
    /\ UNCHANGED xCs

CheckSpam ==
    \/ CsLoopRecv
    \/ CsAcquire
    \/ CsLoopEnd
    \/ CsWait
    \/ \E t \in CsTasks : CsCall(t)
    \/ \E t \in CsTasks : CsSend(t)
    \/ \E t \in CsTasks : CsSent(t)

-----------------------------------------------------------------------------
(* CombineResults of the spam pipeline *)

\* An order that looks at the ID only.
MsgLessByID(a, b) == a.ID < b.ID

\* The less function given to sort.Slice.
MsgLess(a, b) == IF a.HasSpam # b.HasSpam THEN a.HasSpam ELSE a.ID < b.ID

RECURSIVE InsertMsg(_, _)
InsertMsg(x, sorted) ==
    IF sorted = <<>> THEN <<x>>
    ELSE IF MsgLess(x, Head(sorted)) THEN <<x>> \o sorted
    ELSE <<Head(sorted)>> \o InsertMsg(x, Tail(sorted))

RECURSIVE SortMsgs(_)
\* sort.Slice(results, less)
SortMsgs(results) ==
    IF results = <<>> THEN <<>>
    ELSE InsertMsg(Head(results), SortMsgs(Tail(results)))

\* for msgData := range in { results = append(results, msgData.(MsgData)) }
CrLoopRecv ==
    /\ Running("CombineResults")
    /\ cr.pc = "loop"
    /\ CanRecv(InOf("CombineResults"))
    /\ cr' = [cr EXCEPT !.results = Append(@, ch[InOf("CombineResults")].val),
                        !.seen = Append(@, ch[InOf("CombineResults")].val)]
    /\ Take(InOf("CombineResults"))
    /\ UNCHANGED <<closed, nclose, ex, stpc, panicked>>
    /\ UNCHANGED xCr

\* A sink that sorts and starts emitting as soon as no item is waiting.
CrSortEarly ==
    /\ Running("CombineResults")
    /\ cr.pc = "loop"
    /\ ~CanRecv(InOf("CombineResults"))
    /\ cr' = [cr EXCEPT !.pc = "send", !.results = SortMsgs(@)]
    /\ UNCHANGED <<ch, closed, nclose, ex, stpc, panicked>>
    /\ UNCHANGED xCr

\* End of input: sort.Slice(results, ...)
CrSort ==
    /\ Running("CombineResults")
    /\ cr.pc = "loop"
    /\ AtEnd(InOf("CombineResults"))
    /\ cr' = [cr EXCEPT !.pc = "send", !.results = SortMsgs(@)]
    /\ UNCHANGED <<ch, closed, nclose, ex, stpc, panicked>>
    /\ UNCHANGED xCr

\* out <- fmt.Sprintf("%t %d", result.HasSpam, result.ID)
CrSend ==
    /\ Running("CombineResults")
    /\ cr.pc = "send"
    /\ cr.j <= Len(cr.results)
    /\ SendEnabled(OutOf("CombineResults"))
    /\ SendEffect(OutOf("CombineResults"), <<"CombineResults">>,
                  FormatMsgData(cr.results[cr.j]))
    /\ cr' = [cr EXCEPT !.pc = "sent"]
    /\ UNCHANGED <<closed, nclose, ex, stpc>>
    /\ UNCHANGED xCr

CrSent ==
    /\ Running("CombineResults")
    /\ cr.pc = "sent"
    /\ Delivered(OutOf("CombineResults"), <<"CombineResults">>)
    /\ cr' = [cr EXCEPT !.pc = "send", !.j = @ + 1]
    /\ UNCHANGED <<ch, closed, nclose, ex, stpc, panicked>>
    /\ UNCHANGED xCr

CrReturn ==
    /\ Running("CombineResults")
    /\ cr.pc = "send"
    /\ cr.j > Len(cr.results)
    /\ cr' = [cr EXCEPT !.pc = "ret"]
    /\ BodyReturns("CombineResults")
    /\ UNCHANGED <<ch, closed, nclose, ex, panicked>>
    /\ UNCHANGED xCr

CombineResults == CrLoopRecv \/ CrSort \/ CrSend \/ CrSent \/ CrReturn

-----------------------------------------------------------------------------
(* The hash primitives: opaque, injective functions of their input *)

\* DataSignerCrc32(data), written C<data>)
DataSignerCrc32(data) == <<67>> \o data \o <<41>>

\* DataSignerMd5(data), written M<data>)
DataSignerMd5(data) == <<77>> \o data \o <<41>>

-----------------------------------------------------------------------------
(* sync.WaitGroup shared by the per-item goroutines of a stage *)

\* Wait with a counter that is not zero parks the caller; the Done that takes
\* the counter to zero wakes every parked caller.
WgWake(tasks) ==
    [i \in DOMAIN tasks |->
        IF tasks[i].pc = "parked" THEN [tasks[i] EXCEPT !.pc = "released"] ELSE tasks[i]]

WgAfterDone(tasks, v) == IF v = 0 THEN WgWake(tasks) ELSE tasks

\* A woken caller of Wait finds the wait group in use again when an Add came
\* in between: "sync: WaitGroup is reused before previous Wait has returned".
WgReused(v) == v # 0

-----------------------------------------------------------------------------
(* SingleHash *)

ShTasks == 1..Len(sh.t)

\* The read loop going on to the next item while the call of DataSignerMd5
\* is still running.
ShLoopRecvAsync ==
    /\ Running("SingleHash")
    /\ sh.pc = "loop"
    /\ CanRecv(InOf("SingleHash"))
    /\ sh' = [sh EXCEPT !.wg = @ + 1, !.md5n = @ + 1,
                        !.data = ch[InOf("SingleHash")].val]
    /\ Take(InOf("SingleHash"))
    /\ UNCHANGED <<closed, nclose, ex, stpc, panicked>>
    /\ UNCHANGED xSh

\* for v := range in { wg.Add(1); data := v.(int);
\* the call DataSignerMd5(strconv.Itoa(v.(int))) starts.
ShLoopRecv ==
    /\ Running("SingleHash")
    /\ sh.pc = "loop"
    /\ CanRecv(InOf("SingleHash"))
    /\ sh' = [sh EXCEPT !.pc = "md5", !.wg = @ + 1, !.md5n = @ + 1,
                        !.data = ch[InOf("SingleHash")].val]
    /\ Take(InOf("SingleHash"))
    /\ UNCHANGED <<closed, nclose, ex, stpc, panicked>>
    /\ UNCHANGED xSh

\* The per-item goroutine started with the item and its md5.
ShSpawn(tasks, data, md5) ==
    Append(tasks, [pc |-> "add", data |-> data, md5 |-> md5, g1 |-> "no", g2 |-> "no",
                   crc32 |-> <<>>, crc32WithMd5 |-> <<>>])

\* DataSignerMd5 returns; go func(...) {...}(&wg, &wgAlgo, out, data, md5)
ShMd5Return ==
    /\ Running("SingleHash")
    /\ sh.pc = "md5"
    /\ sh' = [sh EXCEPT !.pc = "loop", !.md5n = @ - 1,
                        !.t = ShSpawn(@, sh.data, DataSignerMd5(Itoa(sh.data)))]
    /\ UNCHANGED <<ch, closed, nclose, ex, stpc, panicked>>
    /\ UNCHANGED xSh

ShLoopEnd ==
    /\ Running("SingleHash")
    /\ sh.pc = "loop"
    /\ AtEnd(InOf("SingleHash"))
    /\ sh' = [sh EXCEPT !.pc = "wait"]
    /\ UNCHANGED <<ch, closed, nclose, ex, stpc, panicked>>
    /\ UNCHANGED xSh

\* wg.Wait() and return of the stage body.
ShWait ==
    /\ Running("SingleHash")
    /\ sh.pc = "wait"
    /\ WaitReturns(sh.wg)
    /\ sh' = [sh EXCEPT !.pc = "ret"]
    /\ BodyReturns("SingleHash")
    /\ UNCHANGED <<ch, closed, nclose, ex, panicked>>
    /\ UNCHANGED xSh

\* wgAdditional.Add(1); go getAlgo(crc32Receiver, strconv.Itoa(data));
\* go getAlgo(crc32WithMd5Receiver, hash)
ShAdd(t) ==
    /\ Live("SingleHash")
    /\ sh.t[t].pc = "add"
    /\ sh' = [sh EXCEPT !.wgAlgo = @ + 1, !.t[t].pc = "algodone",
                        !.t[t].g1 = "run", !.t[t].g2 = "run"]
    /\ UNCHANGED <<ch, closed, nclose, ex, stpc, panicked>>
    /\ UNCHANGED xSh

\* wgAdditional.Done()
ShAlgoDone(t) ==
    /\ Live("SingleHash")
    /\ sh.t[t].pc = "algodone"
    /\ sh' = [sh EXCEPT !.wgAlgo = @ - 1,
                        !.t = WgAfterDone([sh.t EXCEPT ![t].pc = "recv1"], sh.wgAlgo - 1)]
    /\ UNCHANGED <<ch, closed, nclose, ex, stpc, panicked>>
    /\ UNCHANGED xSh

\* func getAlgo(ch chan string, data string) { ch <- DataSignerCrc32(data) }
\* The two goroutines of item u, on crc32Receiver and on crc32WithMd5Receiver.
GetAlgo1(u) == DataSignerCrc32(Itoa(sh.t[u].data))

GetAlgo2(u) == DataSignerCrc32(sh.t[u].md5)

\* crc32 := <-crc32Receiver: the unbuffered channel hands over the value of
\* any getAlgo goroutine that is sending on it, and that goroutine ends.
ShRecv1(t) ==
    /\ Live("SingleHash")
    /\ sh.t[t].pc = "recv1"
    /\ \E u \in ShTasks :
          /\ sh.t[u].g1 = "run"
          /\ sh' = [sh EXCEPT !.t[u].g1 = "exit", !.t[t].crc32 = GetAlgo1(u),
                              !.t[t].pc = "recv2"]
    /\ UNCHANGED <<ch, closed, nclose, ex, stpc, panicked>>
    /\ UNCHANGED xSh

\* crc32WithMd5 := <-crc32WithMd5Receiver
ShRecv2(t) ==
    /\ Live("SingleHash")
    /\ sh.t[t].pc = "recv2"
    /\ \E u \in ShTasks :
          /\ sh.t[u].g2 = "run"
          /\ sh' = [sh EXCEPT !.t[u].g2 = "exit", !.t[t].crc32WithMd5 = GetAlgo2(u),
                              !.t[t].pc = "algowait"]
    /\ UNCHANGED <<ch, closed, nclose, ex, stpc, panicked>>
    /\ UNCHANGED xSh

\* wgAdditional.Wait()
ShAlgoWait(t) ==
    /\ Live("SingleHash")
    /\ sh.t[t].pc = "algowait"
    /\ sh' = [sh EXCEPT !.t[t].pc = IF WaitReturns(sh.wgAlgo) THEN "send" ELSE "parked"]
    /\ UNCHANGED <<ch, closed, nclose, ex, stpc, panicked>>
    /\ UNCHANGED xSh

\* wgAdditional.Wait() resumes after the counter reached zero.
ShAlgoWoken(t) ==
    /\ Live("SingleHash")
    /\ sh.t[t].pc = "released"
    /\ sh' = [sh EXCEPT !.t[t].pc = "send"]
    /\ panicked' = IF WgReused(sh.wgAlgo)
                   THEN "WaitGroup is reused before previous Wait has returned"
                   ELSE panicked
    /\ UNCHANGED <<ch, closed, nclose, ex, stpc>>
    /\ UNCHANGED xSh

\* result := crc32 + "~" + crc32WithMd5
ShResult(crc32, crc32WithMd5) == crc32 \o <<126>> \o crc32WithMd5

\* out <- result
ShSend(t) ==
    /\ Live("SingleHash")
    /\ sh.t[t].pc = "send"
    /\ SendEnabled(OutOf("SingleHash"))
    /\ SendEffect(OutOf("SingleHash"), <<"SingleHash", t>>,
                  ShResult(sh.t[t].crc32, sh.t[t].crc32WithMd5))
    /\ sh' = [sh EXCEPT !.t[t].pc = "sent"]
    /\ UNCHANGED <<closed, nclose, ex, stpc>>
    /\ UNCHANGED xSh

\* The send has completed: defer wg.Done()
ShSent(t) ==
    /\ Live("SingleHash")
    /\ sh.t[t].pc = "sent"
    /\ Delivered(OutOf("SingleHash"), <<"SingleHash", t>>)
    /\ sh' = [sh EXCEPT !.t[t].pc = "exit", !.wg = @ - 1]
    /\ UNCHANGED <<ch, closed, nclose, ex, stpc, panicked>>
    /\ UNCHANGED xSh

SingleHash ==
    \/ ShLoopRecv
    \/ ShMd5Return
    \/ ShLoopEnd
    \/ ShWait
    \/ \E t \in ShTasks : ShAdd(t)
    \/ \E t \in ShTasks : ShAlgoDone(t)
    \/ \E t \in ShTasks : ShRecv1(t)
    \/ \E t \in ShTasks : ShRecv2(t)
    \/ \E t \in ShTasks : ShAlgoWait(t)
    \/ \E t \in ShTasks : ShAlgoWoken(t)
    \/ \E t \in ShTasks : ShSend(t)
    \/ \E t \in ShTasks : ShSent(t)

-----------------------------------------------------------------------------
(* MultiHash *)

\* maxThreads := 6
maxThreads == 6

MhTasks == 1..Len(mh.t)

\* The per-item goroutine: threadsSlice := make([]string, maxThreads, maxThreads)
MhSpawn(tasks, data) ==
    Append(tasks, [pc |-> "spawn", data |-> data, i |-> 0, run |-> {},
                   threadsSlice |-> [k \in 1..maxThreads |-> <<>>]])

\* for v := range in { wg.Add(1); data := v.(string); go func(...) {...} }
MhLoopRecv ==
    /\ Running("MultiHash")
    /\ mh.pc = "loop"
    /\ CanRecv(InOf("MultiHash"))
    /\ mh' = [mh EXCEPT !.wg = @ + 1, !.t = MhSpawn(@, ch[InOf("MultiHash")].val)]
    /\ Take(InOf("MultiHash"))
    /\ UNCHANGED <<closed, nclose, ex, stpc, panicked>>
    /\ UNCHANGED xMh

MhLoopEnd ==
    /\ Running("MultiHash")
    /\ mh.pc = "loop"
    /\ AtEnd(InOf("MultiHash"))
    /\ mh' = [mh EXCEPT !.pc = "wait"]
    /\ UNCHANGED <<ch, closed, nclose, ex, stpc, panicked>>
    /\ UNCHANGED xMh

\* wg.Wait() and return of the stage body.
MhWait ==
    /\ Running("MultiHash")
    /\ mh.pc = "wait"
    /\ WaitReturns(mh.wg)
    /\ mh' = [mh EXCEPT !.pc = "ret"]
    /\ BodyReturns("MultiHash")
    /\ UNCHANGED <<ch, closed, nclose, ex, panicked>>
    /\ UNCHANGED xMh

\* One iteration of for i := 0; i < maxThreads; i++: wgThreads.Add(1) and
\* go func(wg, th, data, threadSlice); after the last one, wgThreads.Wait().
MhThreadStart(t) ==
    /\ Live("MultiHash")
    /\ mh.t[t].pc = "spawn"
    /\ mh' = [mh EXCEPT !.wgThreads = @ + 1,
                        !.t[t].run = @ \cup {mh.t[t].i},
                        !.t[t].i = @ + 1,
                        !.t[t].pc = IF mh.t[t].i + 1 < maxThreads THEN "spawn" ELSE "wait"]
    /\ UNCHANGED <<ch, closed, nclose, ex, stpc, panicked>>
    /\ UNCHANGED xMh

\* The next free slot, in the order the sub-tasks complete.
MhSlotByCompletion(t, th) ==
    Cardinality({k \in 1..maxThreads : mh.t[t].threadsSlice[k] # <<>>}) + 1

\* The slot sub-task th of item t writes: threadsSlice[th] = ...
MhSlot(t, th) == th + 1

\* threadsSlice[th] = DataSignerCrc32(strconv.Itoa(th) + data); wg.Done()
MhThread(t, th) ==
    /\ Live("MultiHash")
    /\ th \in mh.t[t].run
    /\ mh' = [mh EXCEPT
                !.wgThreads = @ - 1,
                !.t = WgAfterDone(
                        [mh.t EXCEPT ![t].run = @ \ {th},
                                     ![t].threadsSlice[MhSlot(t, th)] =
                                         DataSignerCrc32(Itoa(th) \o mh.t[t].data)],
                        mh.wgThreads - 1)]
    /\ UNCHANGED <<ch, closed, nclose, ex, stpc, panicked>>
    /\ UNCHANGED xMh

\* wgThreads.Wait()
MhThreadsWait(t) ==
    /\ Live("MultiHash")
    /\ mh.t[t].pc = "wait"
    /\ mh' = [mh EXCEPT !.t[t].pc = IF WaitReturns(mh.wgThreads) THEN "send" ELSE "parked"]
    /\ UNCHANGED <<ch, closed, nclose, ex, stpc, panicked>>
    /\ UNCHANGED xMh

\* wgThreads.Wait() resumes after the counter reached zero.
MhThreadsWoken(t) ==
    /\ Live("MultiHash")
    /\ mh.t[t].pc = "released"
    /\ mh' = [mh EXCEPT !.t[t].pc = "send"]
    /\ panicked' = IF WgReused(mh.wgThreads)
                   THEN "WaitGroup is reused before previous Wait has returned"
                   ELSE panicked
    /\ UNCHANGED <<ch, closed, nclose, ex, stpc>>
    /\ UNCHANGED xMh

RECURSIVE Concat(_)
\* strings.Join(threadsSlice, "")
Concat(ss) == IF ss = <<>> THEN <<>> ELSE Head(ss) \o Concat(Tail(ss))

\* result = strings.Join(threadsSlice, ""); out <- result
MhSend(t) ==
    /\ Live("MultiHash")
    /\ mh.t[t].pc = "send"
    /\ SendEnabled(OutOf("MultiHash"))
    /\ SendEffect(OutOf("MultiHash"), <<"MultiHash", t>>, Concat(mh.t[t].threadsSlice))
    /\ mh' = [mh EXCEPT !.t[t].pc = "sent"]
    /\ UNCHANGED <<closed, nclose, ex, stpc>>
    /\ UNCHANGED xMh

\* The send has completed: defer wg.Done()
MhSent(t) ==
    /\ Live("MultiHash")
    /\ mh.t[t].pc = "sent"
    /\ Delivered(OutOf("MultiHash"), <<"MultiHash", t>>)
    /\ mh' = [mh EXCEPT !.t[t].pc = "exit", !.wg = @ - 1]
    /\ UNCHANGED <<ch, closed, nclose, ex, stpc, panicked>>
    /\ UNCHANGED xMh

MultiHash ==
    \/ MhLoopRecv
    \/ MhLoopEnd
    \/ MhWait
    \/ \E t \in MhTasks : MhThreadStart(t)
    \/ \E t \in MhTasks, th \in 0..(maxThreads - 1) : MhThread(t, th)
    \/ \E t \in MhTasks : MhThreadsWait(t)
    \/ \E t \in MhTasks : MhThreadsWoken(t)
    \/ \E t \in MhTasks : MhSend(t)
    \/ \E t \in MhTasks : MhSent(t)

-----------------------------------------------------------------------------
(* CombineResults of the hash pipeline *)

RECURSIVE StrLess(_, _)
\* a < b on Go strings: byte-wise lexical order, a proper prefix first.
StrLess(a, b) ==
    IF b = <<>> THEN FALSE
    ELSE IF a = <<>> THEN TRUE
    ELSE IF Head(a) # Head(b) THEN Head(a) < Head(b)
    ELSE StrLess(Tail(a), Tail(b))

RECURSIVE InsertStr(_, _)
InsertStr(x, sorted) ==
    IF sorted = <<>> THEN <<x>>
    ELSE IF StrLess(x, Head(sorted)) THEN <<x>> \o sorted
    ELSE <<Head(sorted)>> \o InsertStr(x, Tail(sorted))

RECURSIVE SortStrings(_)
\* sort.Strings(sl)
SortStrings(sl) ==
    IF sl = <<>> THEN <<>>
    ELSE InsertStr(Head(sl), SortStrings(Tail(sl)))

RECURSIVE JoinStrings(_, _)
\* strings.Join(sl, sep)
JoinStrings(sl, sep) ==
    IF sl = <<>> THEN <<>>
    ELSE IF Len(sl) = 1 THEN sl[1]
    ELSE sl[1] \o sep \o JoinStrings(Tail(sl), sep)

\* for v := range in { hash := v.(string); sl = append(sl, hash) }
HcLoopRecv ==
    /\ Running("hash.CombineResults")
    /\ hc.pc = "loop"
    /\ CanRecv(InOf("hash.CombineResults"))
    /\ hc' = [hc EXCEPT !.sl = Append(@, ch[InOf("hash.CombineResults")].val),
                        !.seen = Append(@, ch[InOf("hash.CombineResults")].val)]
    /\ Take(InOf("hash.CombineResults"))
    /\ UNCHANGED <<closed, nclose, ex, stpc, panicked>>
    /\ UNCHANGED xHc

\* result = strings.Join(sl, "_")
HcResult(sl) == JoinStrings(sl, <<95>>)

\* End of input: sort.Strings(sl) and the result is computed.
HcJoin ==
    /\ Running("hash.CombineResults")
    /\ hc.pc = "loop"
    /\ AtEnd(InOf("hash.CombineResults"))
    /\ hc' = [hc EXCEPT !.pc = "send", !.sl = SortStrings(hc.sl),
                        !.result = HcResult(SortStrings(hc.sl))]
    /\ UNCHANGED <<ch, closed, nclose, ex, stpc, panicked>>
    /\ UNCHANGED xHc

\* out <- result
HcSend ==
    /\ Running("hash.CombineResults")
    /\ hc.pc = "send"
    /\ SendEnabled(OutOf("hash.CombineResults"))
    /\ SendEffect(OutOf("hash.CombineResults"), <<"hash.CombineResults">>, hc.result)
    /\ hc' = [hc EXCEPT !.pc = "sent"]
    /\ UNCHANGED <<closed, nclose, ex, stpc>>
    /\ UNCHANGED xHc

\* The send has completed and the stage body returns.
HcSent ==
    /\ Running("hash.CombineResults")
    /\ hc.pc = "sent"
    /\ Delivered(OutOf("hash.CombineResults"), <<"hash.CombineResults">>)
    /\ hc' = [hc EXCEPT !.pc = "ret"]
    /\ BodyReturns("hash.CombineResults")
    /\ UNCHANGED <<ch, closed, nclose, ex, panicked>>
    /\ UNCHANGED xHc

HashCombineResults == HcLoopRecv \/ HcJoin \/ HcSend \/ HcSent

-----------------------------------------------------------------------------
(* The last job of main: dataRaw := <-in; data, _ := dataRaw.(string) *)

FinalRecv ==
    /\ Running("final")
    /\ fin.pc = "recv"
    /\ CanRecv(InOf("final"))
    /\ fin' = [fin EXCEPT !.pc = "ret", !.got = Append(@, ch[InOf("final")].val)]
    /\ Take(InOf("final"))
    /\ BodyReturns("final")
    /\ UNCHANGED <<closed, nclose, ex, panicked>>
    /\ UNCHANGED xFin

\* The receive on a closed stream yields nil, and result stays "".
FinalRecvNil ==
    /\ Running("final")
    /\ fin.pc = "recv"
    /\ AtEnd(InOf("final"))
    /\ fin' = [fin EXCEPT !.pc = "ret"]
    /\ BodyReturns("final")
    /\ UNCHANGED <<ch, closed, nclose, ex, panicked>>
    /\ UNCHANGED xFin

Final == FinalRecv \/ FinalRecvNil

-----------------------------------------------------------------------------
(* WorkerPool: main starts AdjustWorkers, waits for a signal and calls Down. *)
(* The worker goroutines are alike, so wp counts them by position: loop (in *)
(* the select), dec (about to run the deferred decrement of workersCounter) *)
(* and done (about to run the deferred wg.Done()).                          *)

\* The most worker goroutines between their decrement and their wg.Done().
MaxReturning == 2

\* const cpuPercentTrigger = 2
cpuPercentTrigger == 2

\* wp := NewWorkerPool(10)
maxWorkers == 10

\* percent[0] of cpu.Percent: below, at and above the trigger.
Loads == {1, 2, 3}

\* The program runs until it panics or main returns.
PoolRuns == Alive /\ wp.main # "exited"

InitPool ==
    /\ cmds = <<>>
    /\ InitCommon

\* case <-ticker.C: percent, _ := cpu.Percent(time.Second, false);
\* currentLoad := percent[0]
AwTick ==
    /\ PoolRuns
    /\ wp.aw = "tick"
    /\ \E load \in Loads : wp' = [wp EXCEPT !.aw = "decide", !.currentLoad = load]
    /\ UNCHANGED panicked
    /\ UNCHANGED xWp

\* A pool that grows whatever the counter says.
MayAddAlways(currentLoad, counter) == currentLoad > cpuPercentTrigger

\* currentLoad > cpuPercentTrigger && wp.maxWorkers > atomic.LoadInt32(&wp.workersCounter)
MayAdd(currentLoad, counter) ==
    currentLoad > cpuPercentTrigger /\ maxWorkers > counter

\* currentLoad < cpuPercentTrigger && int(atomic.LoadInt32(&wp.workersCounter)) > 1
MayRemove(currentLoad, counter) ==
    currentLoad < cpuPercentTrigger /\ counter > 1

\* if ... { wp.StartWorker() } else if ... { wp.StopWorker() }
AwDecide ==
    /\ PoolRuns
    /\ wp.aw = "decide"
    /\ wp' = [wp EXCEPT !.aw = IF MayAdd(wp.currentLoad, wp.workersCounter) THEN "start"
                               ELSE IF MayRemove(wp.currentLoad, wp.workersCounter)
                                    THEN "stop" ELSE "tick"]
    /\ UNCHANGED panicked
    /\ UNCHANGED xWp

\* StartWorker: atomic.AddInt32(&wp.workersCounter, 1)
AwStartCount ==
    /\ PoolRuns
    /\ wp.aw = "start"
    /\ wp' = [wp EXCEPT !.aw = "add", !.workersCounter = @ + 1]
    /\ UNCHANGED panicked
    /\ UNCHANGED xWp

\* StartWorker: wp.wg.Add(1); go func() {...}()
\* lateAdd records an Add made while Down is in wp.wg.Wait().
AwStartGo ==
    /\ PoolRuns
    /\ wp.aw = "add"
    /\ wp' = [wp EXCEPT !.aw = "tick", !.wg = @ + 1, !.loop = @ + 1,
                        !.lateAdd = @ \/ wp.main \in {"parked", "released"}]
    /\ UNCHANGED panicked
    /\ UNCHANGED xWp

\* StopWorker: wp.workerChan <- struct{}{}. The send panics when the channel
\* is closed, also when it is closed while the send waits; otherwise it
\* completes when a worker in its select receives, and that worker returns.
AwStop ==
    /\ PoolRuns
    /\ wp.aw = "stop"
    /\ IF wp.closed
       THEN /\ panicked' = "send on closed channel"
            /\ UNCHANGED wp
       ELSE /\ wp.loop > 0
            /\ wp' = [wp EXCEPT !.aw = "tick", !.loop = @ - 1, !.dec = @ + 1]
            /\ UNCHANGED panicked
    /\ UNCHANGED xWp

\* case <-wp.workerChan: on the closed channel the receive returns at once.
WorkerClosed ==
    /\ PoolRuns
    /\ wp.closed
    /\ wp.loop > 0
    /\ wp' = [wp EXCEPT !.loop = @ - 1, !.dec = @ + 1]
    /\ UNCHANGED panicked
    /\ UNCHANGED xWp

\* defer atomic.AddInt32(&wp.workersCounter, -1)
WorkerDec ==
    /\ PoolRuns
    /\ wp.dec > 0
    /\ wp.done < MaxReturning
    /\ wp' = [wp EXCEPT !.dec = @ - 1, !.done = @ + 1, !.workersCounter = @ - 1]
    /\ UNCHANGED panicked
    /\ UNCHANGED xWp

\* defer wp.wg.Done(): the Done that takes the counter to zero releases Down.
WorkerDone ==
    /\ PoolRuns
    /\ wp.done > 0
    /\ wp' = [wp EXCEPT !.done = @ - 1, !.wg = @ - 1,
                        !.main = IF wp.main = "parked" /\ wp.wg = 1
                                 THEN "released" ELSE @]
    /\ UNCHANGED panicked
    /\ UNCHANGED xWp

\* The signal arrives; Down: close(wp.workerChan)
MainDown ==
    /\ PoolRuns
    /\ wp.main = "signal"
    /\ wp' = [wp EXCEPT !.main = "wait", !.closed = TRUE]
    /\ UNCHANGED panicked
    /\ UNCHANGED xWp

\* Down: wp.wg.Wait(); with a zero counter Down and then main return.
MainWait ==
    /\ PoolRuns
    /\ wp.main = "wait"
    /\ wp' = [wp EXCEPT !.main = IF WaitReturns(wp.wg) THEN "exited" ELSE "parked"]
    /\ UNCHANGED panicked
    /\ UNCHANGED xWp

\* wp.wg.Wait() resumes after the counter reached zero; main returns.
MainWoken ==
    /\ PoolRuns
    /\ wp.main = "released"
    /\ wp' = [wp EXCEPT !.main = "exited"]
    /\ panicked' = IF WgReused(wp.wg)
                   THEN "WaitGroup is reused before previous Wait has returned"
                   ELSE panicked
    /\ UNCHANGED xWp

AdjustWorkers == AwTick \/ AwDecide \/ AwStartCount \/ AwStartGo \/ AwStop

Worker == WorkerClosed \/ WorkerDec \/ WorkerDone

Main == MainDown \/ MainWait \/ MainWoken

NextPool == AdjustWorkers \/ Worker \/ Main

SpecPool == InitPool /\ [][NextPool]_vars

-----------------------------------------------------------------------------
(* Specifications: one per pipeline configuration *)

NextUsers == Executor \/ Source \/ Drain \/ SelectUsers

SpecUsers == InitUsers /\ [][NextUsers]_vars

NextMessages == Executor \/ Source \/ Drain \/ SelectMessages

SpecMessages == InitMessages /\ [][NextMessages]_vars

NextCheckSpam == Executor \/ Source \/ Drain \/ CheckSpam

SpecCheckSpam == InitCheckSpam /\ [][NextCheckSpam]_vars

NextSingleHash == Executor \/ Source \/ Drain \/ SingleHash

SpecSingleHash == InitSingleHash /\ [][NextSingleHash]_vars

NextMultiHash == Executor \/ Source \/ Drain \/ MultiHash

SpecMultiHash == InitMultiHash /\ [][NextMultiHash]_vars

\* The two sorted sinks.
NextSinks == Executor \/ Source \/ Drain \/ CombineResults \/ HashCombineResults \/ Final

SpecSinks == (InitCombine \/ InitHashCombine) /\ [][NextSinks]_vars

\* The two stages whose external calls may fail.
NextFailures == Executor \/ Source \/ Drain \/ SelectMessages \/ CheckSpam

SpecFailures == (InitMessages \/ InitCheckSpam) /\ [][NextFailures]_vars

\* A batching stage and an indexed fan-out stage under the executor.
NextStreams == Executor \/ Source \/ Drain \/ SelectMessages \/ MultiHash

\* Every stage that changes the number of items, one at a time after the source.
NextCounts ==
    \/ Executor
    \/ Source
    \/ Drain
    \/ SelectUsers
    \/ SelectMessages
    \/ CheckSpam
    \/ CombineResults
    \/ HashCombineResults
    \/ Final

SpecCounts ==
    /\ InitUsers \/ InitMessages \/ InitCheckSpam \/ InitCombine \/ InitHashCombine
    /\ [][NextCounts]_vars

SpecStreams == (InitMessages \/ InitMultiHash) /\ [][NextStreams]_vars

-----------------------------------------------------------------------------
(* Claims *)

\* C1: every pipeline run returns: in no reachable state is the executor
\* still waiting while no goroutine of the pipeline can take a step (a stage
\* or task blocked forever, or the program ended by a panic).
C1_PipelineReturns == ex.pc = "returned" \/ (Alive /\ ENABLED NextMultiHash)

\* Whether every goroutine a stage has started has finished.
StageQuiet(kind) ==
    CASE kind = "SelectUsers" -> \A t \in SuTasks : su.t[t].pc = "exit"
      [] kind = "SelectMessages" -> \A t \in SmTasks : sm.t[t].pc = "exit"
      [] kind = "CheckSpam" -> \A t \in CsTasks : cs.t[t].pc = "exit"
      [] kind = "SingleHash" -> \A t \in ShTasks : sh.t[t].pc = "exit"
      [] kind = "MultiHash" ->
            \A t \in MhTasks : mh.t[t].pc = "exit" /\ mh.t[t].run = {}
      [] OTHER -> TRUE

\* C2: a stream is closed at most once, only after the body of its producing
\* stage has returned and every goroutine that stage started has finished
\* emitting; no goroutine sends on a closed stream, and a closed stream holds
\* no value still in flight.
C2_CloseAfterJoin ==
    /\ panicked \notin {"send on closed channel", "close of closed channel"}
    /\ \A k \in 1..Len(cmds) :
          /\ nclose[k] <= 1
          /\ closed[k] => /\ nclose[k] = 1
                          /\ stpc[k] \in {"done", "exited"}
                          /\ StageQuiet(cmds[k])
                          /\ ~IsMsg(ch[k])

\* Both items of a MultiHash run were emitted and its stream is closed.
C2_Witness ==
    /\ cmds[2] = "MultiHash"
    /\ closed[2]
    /\ Len(mh.t) = 2
    /\ Len(fin.got) = 2

\* C3: the executor returns only after every stage goroutine has returned
\* and has closed its outbound stream.
C3_ReturnsAfterStages ==
    ex.pc = "returned" =>
        \A k \in 1..Len(cmds) : stpc[k] = "exited" /\ closed[k] /\ nclose[k] = 1

\* The executor has returned from a run whose sink emitted two records.
C3_Witness ==
    /\ ex.pc = "returned"
    /\ cmds[2] = "CombineResults"
    /\ Len(fin.got) = 2

\* The IDs of a sequence of users.
IDsOf(users) == {users[i].ID : i \in DOMAIN users}

\* The IDs GetUser resolved from the emails SelectUsers has received.
SuResolved == {GetUser(su.t[t].email).ID : t \in SuTasks}

\* C4: SelectUsers never forwards two users with the same ID, forwards only
\* IDs resolved from its input, and by the time its body returns has
\* forwarded exactly one user for every resolved ID.
C4_OneUserPerID ==
    cmds[2] = "SelectUsers" =>
        /\ \A i, j \in DOMAIN fin.got : fin.got[i].ID = fin.got[j].ID => i = j
        /\ IDsOf(fin.got) \subseteq SuResolved
        /\ su.pc = "ret" => /\ IDsOf(fin.got) = SuResolved
                            /\ Len(fin.got) = Cardinality(SuResolved)

\* Three emails, two of them of the same user, gave two forwarded users.
C4_Witness ==
    /\ cmds[2] = "SelectUsers"
    /\ su.pc = "ret"
    /\ Len(su.t) = 3
    /\ \E t, u \in SuTasks : /\ su.t[t].email # su.t[u].email
                             /\ UserID(su.t[t].email) = UserID(su.t[u].email)
    /\ Len(fin.got) = 2

\* The users of the first n dispatched batches, in dispatch order.
RECURSIVE SmDispatched(_)
SmDispatched(n) == IF n = 0 THEN <<>> ELSE SmDispatched(n - 1) \o sm.t[n].batch

\* C5: after T users and with B = GetMessagesMaxUsersBatch, SelectMessages has
\* dispatched ceil(T / B) batches, each to one GetMessages call; every batch
\* but the last has exactly B users, none is empty, and the batches in
\* dispatch order are the received users in arrival order.
C5_Batches ==
    cmds[2] = "SelectMessages" =>
        LET T == Len(sm.seen)
            B == GetMessagesMaxUsersBatch
            n == Len(sm.t)
        IN  /\ \A k \in 1..n : Len(sm.t[k].batch) \in 1..B
            /\ \A k \in 1..(n - 1) : Len(sm.t[k].batch) = B
            /\ sm.pc = "loop" => SmDispatched(n) \o sm.userBatch = sm.seen
            /\ sm.pc # "loop" => /\ SmDispatched(n) = sm.seen
                                 /\ n * B >= T
                                 /\ (n - 1) * B < T \/ (n = 0 /\ T = 0)
            /\ sm.pc = "ret" => \A k \in 1..n : sm.t[k].pc = "exit"

\* Three users went out as a full batch and a partial one.
C5_Witness ==
    /\ cmds[2] = "SelectMessages"
    /\ sm.pc = "ret"
    /\ Len(sm.seen) = 3
    /\ Len(sm.t) = 2
    /\ Len(sm.t[2].batch) = 1

\* The CheckSpam tasks whose HasSpam call is in flight.
CsInFlight == {t \in CsTasks : cs.t[t].pc = "call"}

\* C6: at most HasSpamMaxAsyncRequests calls of HasSpam are in flight, every
\* task calling HasSpam holds a permit, and the permits held are exactly the
\* elements of the buffered channel done.
C6_Gate ==
    cmds[2] = "CheckSpam" =>
        /\ Cardinality(CsInFlight) <= HasSpamMaxAsyncRequests
        /\ \A t \in CsInFlight : cs.t[t].permit
        /\ Cardinality({t \in CsTasks : cs.t[t].permit}) = cs.done
        /\ cs.done <= HasSpamMaxAsyncRequests

\* The gate is full of calls in flight and the read loop waits for a permit.
C6_Witness ==
    /\ cmds[2] = "CheckSpam"
    /\ Cardinality(CsInFlight) = HasSpamMaxAsyncRequests
    /\ cs.pc = "acquire"

\* C7: DataSignerMd5 never has more than one call in flight in SingleHash.
C7_OneMd5 == cmds[2] = "SingleHash" => sh.md5n <= 1

\* A call of DataSignerMd5 is in flight while the goroutine of an earlier
\* item has both its getAlgo goroutines running.
C7_Witness ==
    /\ cmds[2] = "SingleHash"
    /\ sh.md5n = 1
    /\ \E t \in ShTasks : sh.t[t].g1 = "run" /\ sh.t[t].g2 = "run"

\* The value MultiHash owes for an item: the six hashes in index order.
MhExpected(data) ==
    DataSignerCrc32(Itoa(0) \o data) \o DataSignerCrc32(Itoa(1) \o data)
    \o DataSignerCrc32(Itoa(2) \o data) \o DataSignerCrc32(Itoa(3) \o data)
    \o DataSignerCrc32(Itoa(4) \o data) \o DataSignerCrc32(Itoa(5) \o data)

\* C8: a MultiHash goroutine past its wgThreads.Wait() has all six slots
\* filled with the hashes of its own item, and every value MultiHash emits is
\* the concatenation of the six hashes of one item in index order, at most
\* one value per item and exactly one per item once the stage has returned.
C8_IndexOrder ==
    cmds[2] = "MultiHash" =>
        /\ \A t \in MhTasks :
              mh.t[t].pc \in {"send", "sent", "exit"} =>
                  /\ mh.t[t].run = {}
                  /\ \A th \in 0..5 :
                        mh.t[t].threadsSlice[th + 1]
                            = DataSignerCrc32(Itoa(th) \o mh.t[t].data)
        /\ IsMsg(ch[2]) => \E t \in MhTasks : /\ mh.t[t].pc = "sent"
                                              /\ ch[2].val = MhExpected(mh.t[t].data)
        /\ \A i \in DOMAIN fin.got :
              \E t \in MhTasks : /\ mh.t[t].pc \in {"sent", "exit"}
                                 /\ fin.got[i] = MhExpected(mh.t[t].data)
        /\ \A i, j \in DOMAIN fin.got : fin.got[i] = fin.got[j] => i = j
        /\ mh.pc = "ret" => Len(fin.got) = Len(mh.t)

\* Two items were in flight together and the second one's value came first.
C8_Witness ==
    /\ cmds[2] = "MultiHash"
    /\ Len(mh.t) = 2
    /\ Len(fin.got) = 2
    /\ fin.got[1] = MhExpected(mh.t[2].data)
    /\ fin.got[2] = MhExpected(mh.t[1].data)

\* How many times x occurs in a sequence.
Count(seq, x) == Cardinality({i \in DOMAIN seq : seq[i] = x})

\* Two sequences with the same elements, each as often.
SameItems(a, b) ==
    /\ Len(a) = Len(b)
    /\ \A i \in DOMAIN a : Count(a, a[i]) = Count(b, a[i])

\* Spam records first, ascending ID within each group.
SpamFirstByID(rs) ==
    \A i, j \in DOMAIN rs :
        i < j => /\ rs[i].HasSpam \/ ~rs[j].HasSpam
                 /\ rs[i].HasSpam = rs[j].HasSpam => rs[i].ID <= rs[j].ID

\* a <= b in lexical order: a is a prefix of b, or differs first by a
\* smaller character.
LexLeq(a, b) ==
    \E k \in 0..Len(a) :
        /\ k <= Len(b)
        /\ \A i \in 1..k : a[i] = b[i]
        /\ k = Len(a) \/ (k < Len(b) /\ a[k + 1] < b[k + 1])

RECURSIVE Underscored(_, _)
\* The first n strings of sl with "_" between neighbours.
Underscored(sl, n) ==
    IF n = 0 THEN <<>>
    ELSE IF n = 1 THEN sl[1]
    ELSE Underscored(sl, n - 1) \o <<95>> \o sl[n]

\* C9: once its input has ended, a sorted sink holds the collected items
\* rearranged in its order, whatever the order of arrival: the spam
\* CombineResults emits one formatted record per collected MsgData, spam
\* first and ascending by ID within each group; the hash CombineResults emits
\* one string, the collected strings in ascending lexical order joined
\* with "_".
C9_SortedSinks ==
    /\ (cmds[2] = "CombineResults" /\ cr.pc # "loop") =>
          /\ SameItems(cr.results, cr.seen)
          /\ SpamFirstByID(cr.results)
          /\ Len(fin.got) <= Len(cr.results)
          /\ \A i \in DOMAIN fin.got : fin.got[i] = FormatMsgData(cr.results[i])
          /\ cr.pc = "ret" => Len(fin.got) = Len(cr.seen)
    /\ (cmds[2] = "hash.CombineResults" /\ hc.pc # "loop") =>
          /\ SameItems(hc.sl, hc.seen)
          /\ \A i, j \in DOMAIN hc.sl : i < j => LexLeq(hc.sl[i], hc.sl[j])
          /\ hc.result = Underscored(hc.sl, Len(hc.sl))
          /\ fin.got \in {<<>>, <<hc.result>>}
          /\ hc.pc = "ret" => fin.got = <<hc.result>>

\* Three records arrived out of order and all three were emitted.
C9_Witness ==
    /\ cmds[2] = "CombineResults"
    /\ cr.pc = "ret"
    /\ Len(cr.seen) = 3
    /\ cr.seen # cr.results
    /\ \E i, j \in DOMAIN cr.seen : cr.seen[i].HasSpam /\ ~cr.seen[j].HasSpam
    /\ Len(fin.got) = 3

\* The batches whose GetMessages call did not fail and hold message x.
SmGood(x) ==
    UNION {{<<t, i>> : i \in {k \in DOMAIN GetMessages(sm.t[t].batch) :
                                 GetMessages(sm.t[t].batch)[k] = x}} :
           t \in {u \in SmTasks : ~sm.t[u].err /\ sm.t[u].pc # "call"}}

\* The tasks whose HasSpam call did not fail and owe record r.
CsGood(r) == {t \in CsTasks : /\ ~cs.t[t].err
                              /\ cs.t[t].pc \in {"send", "sent", "exit"}
                              /\ cs.t[t].id = r.ID
                              /\ IsSpam(cs.t[t].id) = r.HasSpam}

\* C10: a failed GetMessages call drops the messages of its batch only and
\* a failed HasSpam call drops the record of its ID only and still gives its
\* permit back; the stage goes on, returns, and its stream is closed without
\* a panic.
C10_LocalFailures ==
    /\ Alive
    /\ ex.pc = "returned" \/ ENABLED NextFailures
    /\ ex.pc = "returned" => closed[2] /\ nclose[2] = 1
    /\ cmds[2] = "SelectMessages" =>
          /\ \A t \in SmTasks : sm.t[t].err => sm.t[t].pc = "exit" /\ sm.t[t].j = 1
          /\ \A x \in {11, 12, 21} :
                /\ Count(fin.got, x) <= Cardinality(SmGood(x))
                /\ sm.pc = "ret" => Count(fin.got, x) = Cardinality(SmGood(x))
          /\ \A i \in DOMAIN fin.got : fin.got[i] \in {11, 12, 21}
    /\ cmds[2] = "CheckSpam" =>
          /\ \A t \in CsTasks : cs.t[t].err => cs.t[t].pc = "exit" /\ ~cs.t[t].permit
          /\ \A r \in [ID : MsgIDs, HasSpam : BOOLEAN] :
                /\ Count(fin.got, r) <= Cardinality(CsGood(r))
                /\ cs.pc = "ret" => Count(fin.got, r) = Cardinality(CsGood(r))
          /\ \A i \in DOMAIN fin.got : fin.got[i] \in [ID : MsgIDs, HasSpam : BOOLEAN]
          /\ cs.pc = "ret" => cs.done = 0

\* HasSpam failed for one ID and succeeded for another, whose record came
\* out, and the pipeline returned.
C10_Witness ==
    /\ cmds[2] = "CheckSpam"
    /\ ex.pc = "returned"
    /\ \E t, u \in CsTasks : cs.t[t].err /\ ~cs.t[u].err
    /\ Len(fin.got) >= 1
    /\ Len(fin.got) < Len(cs.t)

\* The number of items the source has put on its stream.
SourceEmitted == IF src.pc = "sent" THEN src.i ELSE src.i - 1

\* Some item failed in an external call or was dropped as a duplicate.
SomeItemLost ==
    \/ \E t \in SmTasks : sm.t[t].err
    \/ \E t \in CsTasks : cs.t[t].err
    \/ Cardinality(SuResolved) < Len(su.t)

RECURSIVE SmMessages(_)
\* The message IDs returned to the first n batches whose call succeeded.
SmMessages(n) ==
    IF n = 0 THEN 0
    ELSE SmMessages(n - 1)
         + (IF sm.t[n].err \/ sm.t[n].pc = "call" THEN 0
            ELSE Len(GetMessages(sm.t[n].batch)))

InFlight ==
    CASE cmds[2] = "SelectUsers" -> {t \in SuTasks : su.t[t].pc # "exit"}
      [] cmds[2] = "CheckSpam" -> {t \in CsTasks : cs.t[t].pc # "exit"}
      [] cmds[2] = "SingleHash" -> {t \in ShTasks : sh.t[t].pc # "exit"}
      [] cmds[2] = "MultiHash" -> {t \in MhTasks : mh.t[t].pc # "exit"}
      [] OTHER -> {}

\* C12: while the consumer of the stage's outbound stream receives nothing,
\* the per-item goroutines in flight stay below a bound that does not grow
\* with the input: they are fewer than the items of a full input.
C12_FanOutBounded == fin.got = <<>> => Cardinality(InFlight) < MaxItems

\* C13: the goroutine that holds mu is neither in GetUser nor at the send of
\* its user on the outbound stream: the mutex covers the check-and-mark only.
C13_LockOnlyForCheck ==
    cmds[2] = "SelectUsers" =>
        \A t \in SuTasks : su.mu = t => su.t[t].pc \notin {"getuser", "send", "sent"}

\* C14: a CheckSpam goroutine at the send of its MsgData holds no permit, so
\* the read loop is never waiting for a permit held by a goroutine that
\* waits for the consumer.
C14_NoPermitAtSend ==
    cmds[2] = "CheckSpam" =>
        \A t \in CsTasks : cs.t[t].pc \in {"send", "sent"} => ~cs.t[t].permit

\* The value SingleHash owes for the item data.
ShExpected(data) ==
    DataSignerCrc32(Itoa(data)) \o <<126>>
        \o DataSignerCrc32(DataSignerMd5(Itoa(data)))

\* C15: every goroutine of SingleHash has read from the two result channels
\* the hashes of its own item only, and the values emitted are those owed for
\* the input items, one value per item.
C15_OwnResults ==
    cmds[2] = "SingleHash" =>
        /\ \A t \in ShTasks :
              /\ sh.t[t].crc32 \in {<<>>, DataSignerCrc32(Itoa(sh.t[t].data))}
              /\ sh.t[t].crc32WithMd5
                    \in {<<>>, DataSignerCrc32(DataSignerMd5(Itoa(sh.t[t].data)))}
        /\ \A i \in DOMAIN fin.got :
              \E t \in ShTasks : fin.got[i] = ShExpected(sh.t[t].data)
        /\ \A i, j \in DOMAIN fin.got : fin.got[i] = fin.got[j] => i = j

\* The items SingleHash has read: those with a goroutine, and the one whose
\* DataSignerMd5 call is in flight.
ShItemsRead == Len(sh.t) + sh.md5n

\* The DataSignerCrc32(data) call of the i-th item is in flight or done.
ShCrc32Started(i) == i \in ShTasks /\ sh.t[i].g1 \in {"run", "exit"}

\* The goroutine that starts the DataSignerCrc32(data) call of the i-th item
\* can take that step.
ShCrc32CanStart(i) == i \in ShTasks /\ sh.t[i].pc = "add"

\* C16: the limit on DataSignerMd5 does not delay the DataSignerCrc32(data)
\* call of the same item: while the DataSignerMd5 call of an item is in
\* flight, its DataSignerCrc32(data) call is in flight, or done, or can start.
C16_Crc32NotDelayed ==
    (cmds[2] = "SingleHash" /\ sh.md5n > 0) =>
        ShCrc32Started(ShItemsRead) \/ ShCrc32CanStart(ShItemsRead)

\* The inbound stream of the sink is closed and every item the source put on
\* it has been received.
SinkInputDone(seen) ==
    /\ closed[1]
    /\ ~IsMsg(ch[1])
    /\ Len(seen) = SourceEmitted

ShToRecv1 == {t \in ShTasks : sh.t[t].pc \in {"add", "algodone", "recv1"}}

ShToRecv2 == {t \in ShTasks : sh.t[t].pc \in {"add", "algodone", "recv1", "recv2"}}

\* C18: the sends and receives on the two result channels of SingleHash
\* balance and complete: a getAlgo goroutine that is sending has a goroutine
\* still to receive from its channel, a goroutine that is receiving has a
\* getAlgo goroutine sending to it, the program is running so that the
\* exchange can take place, and once the stage body has returned nothing is
\* left sending or receiving.
C18_ResultChannelsDrain ==
    cmds[2] = "SingleHash" =>
        /\ \A u \in ShTasks :
              /\ sh.t[u].g1 = "run" => Alive /\ ShToRecv1 # {}
              /\ sh.t[u].g2 = "run" => Alive /\ ShToRecv2 # {}
        /\ \A t \in ShTasks :
              /\ sh.t[t].pc = "recv1" => Alive /\ \E u \in ShTasks : sh.t[u].g1 = "run"
              /\ sh.t[t].pc = "recv2" => Alive /\ \E u \in ShTasks : sh.t[u].g2 = "run"
        /\ sh.pc = "ret" =>
              \A t \in ShTasks : /\ sh.t[t].pc = "exit"
                                 /\ sh.t[t].g1 = "exit"
                                 /\ sh.t[t].g2 = "exit"

\* The same exchange while the program has not panicked.
C18_BalancedWhileAlive == Alive => C18_ResultChannelsDrain

\* C19: once Down has closed workerChan, StopWorker never sends on it, and
\* StartWorker never adds to the wait group while Down is in wp.wg.Wait().
C19_NoUseAfterDown ==
    cmds = <<>> => /\ panicked # "send on closed channel"
                   /\ ~wp.lateAdd

\* The worker goroutines that have started and not returned.
WorkersAlive == wp.loop + wp.dec + wp.done

\* C20 as stated: workersCounter stays within 0..maxWorkers and the worker
\* goroutines alive are never more than maxWorkers.
C20_AtMostMaxWorkers ==
    /\ wp.workersCounter \in 0..maxWorkers
    /\ WorkersAlive <= maxWorkers

\* C20 amended: workersCounter stays within 0..maxWorkers and counts every
\* worker goroutine that has not yet run its deferred decrement, so these are
\* never more than maxWorkers; a goroutine past its decrement and not yet
\* returned is alive and not counted.
C20_CounterBounds ==
    /\ wp.workersCounter \in 0..maxWorkers
    /\ wp.workersCounter = wp.loop + wp.dec + (IF wp.aw = "add" THEN 1 ELSE 0)
    /\ wp.loop + wp.dec <= maxWorkers
    /\ wp.wg = WorkersAlive

\* The pool is full and AdjustWorkers, under load, is deciding.
C20_Witness ==
    /\ wp.workersCounter = maxWorkers
    /\ wp.loop = maxWorkers
    /\ wp.aw = "decide"
    /\ wp.currentLoad > cpuPercentTrigger

\* C21: before Down is called, no step takes the pool from some worker
\* goroutine alive to none, and AdjustWorkers never comes to wait in
\* StopWorker with no worker in its select to receive the send.
C21_KeepsAWorker ==
    [][(wp.main = "signal" /\ wp'.main = "signal") =>
          /\ WorkersAlive > 0 => wp'.loop + wp'.dec + wp'.done > 0
          /\ wp'.aw = "stop" => wp'.loop > 0]_vars

=============================================================================
